---- MODULE Spec2Model ----
(***************************************************************************)
(* Model of the ConvergedRAG web front end: the menu selection computed by *)
(* the layouts and the Sidebar (web/src/layouts/...), and the tenant user  *)
(* action hooks and the edit-user form (web/src/pages/user-setting).       *)
(*                                                                         *)
(* Strings are TLA+ strings; String.prototype.startsWith is computed       *)
(* character by character with Len and SubSeq.                             *)
(***************************************************************************)
EXTENDS Integers, Sequences, FiniteSets, Bags, TLC

VARIABLES
    layout,                    \* the layout component that is mounted
    pathname,                  \* useLocation().pathname
    loggedIn,                  \* FALSE once logout() was called
    sidebarCollapsed,          \* useState of the layouts that embed Sidebar
    collapsed,                 \* useState of Sidebar
    addingTenantModalVisible,  \* useAddUser: visible of useSetModalState
    confirms,                  \* open confirmation dialogs (showDeleteConfirm)
    inflight,                  \* remote calls issued and not yet answered
    removeConfirmed,           \* confirmations given to RemoveUser dialogs
    removeCalls,               \* deleteTenantUser({userId}) calls issued
    listTenantUser,            \* state of the cached query ['listTenantUser']
    membership,                \* the server's membership of the current user
    editingUserModalVisible,   \* useEditUser: visible of useSetModalState
    editingUser,               \* useEditUser: the edit buffer
    form,                      \* EditUserModal: values held by useForm
    formErrors,                \* EditUserModal: fields with an inline error
    last                       \* the handler step taken last

menuVars == <<layout, pathname, loggedIn, sidebarCollapsed, collapsed>>
tenantVars == <<addingTenantModalVisible, confirms, inflight, removeConfirmed,
                removeCalls, listTenantUser, membership>>
editVars == <<editingUserModalVisible, editingUser, form, formErrors>>
vars == <<layout, pathname, loggedIn, sidebarCollapsed, collapsed,
          addingTenantModalVisible, confirms, inflight, removeConfirmed,
          removeCalls, listTenantUser, membership, editingUserModalVisible,
          editingUser, form, formErrors, last>>

(***************************************************************************)
(* Strings                                                                 *)
(***************************************************************************)

\* String.prototype.startsWith: key is a character prefix of path.
startsWith(path, key) ==
    IF Len(key) = 0 THEN TRUE
    ELSE /\ Len(key) <= Len(path)
         /\ SubSeq(path, 1, Len(key)) = key

(***************************************************************************)
(* Menu trees.  An item is [key, children]; children are leaf keys.        *)
(***************************************************************************)

Leaf(k) == [key |-> k, children |-> << >>]

\* enum Routes (@/routes): the values the menus of this repository use.
Routes ==
    [Home |-> "/home", Datasets |-> "/datasets", Chats |-> "/next-chats",
     Searches |-> "/next-searches", Agents |-> "/agents", Files |-> "/files"]

\* layouts/index.tsx, first variant: five top-level entries.
LegacyMenuItems ==
    << Leaf("/knowledge"), Leaf("/chat"), Leaf("/search"), Leaf("/flow"),
       Leaf("/file") >>

\* layouts/index.tsx, second variant: adds the /user and /system groups.
UserMenuItems ==
    LegacyMenuItems \o
    << [key |-> "/user",
        children |-> << "/user/profile", "/user/password", "/user/team",
                        "/user/logout" >>],
       [key |-> "/system",
        children |-> << "/system/settingmodel", "/system/sysinfo",
                        "/system/api" >>] >>

\* NextLayout of layouts/components/header/index.tsx: keys from Routes.
RoutesMenuItems ==
    << Leaf(Routes.Datasets), Leaf(Routes.Chats), Leaf(Routes.Searches),
       Leaf(Routes.Agents), Leaf(Routes.Files) >>

\* NextLayout of layouts/next.tsx.
NextMenuItems ==
    LegacyMenuItems \o
    << [key |-> "/user",
        children |-> << "/user/profile", "/user/password", "/user/team",
                        "/user/locale", "/user/logout" >>],
       [key |-> "/system",
        children |-> << "/system/settingmodel", "/system/sysinfo",
                        "/system/api" >>] >>

\* Sidebar
mainMenuItems ==
    << Leaf("/datasets"), Leaf("/next-chats"), Leaf("/next-searches"),
       Leaf("/agents"), Leaf("/files") >>

systemManagementItems ==
    << Leaf("/user-setting/data-source"), Leaf("/user-setting/model"),
       Leaf("/user-setting/mcp"), Leaf("/user-setting/api"),
       Leaf("/user-setting/system") >>

userManagementItems ==
    << Leaf("/user-setting/profile"), Leaf("/user-setting/team") >>

KeysOf(its) == [i \in 1..Len(its) |-> its[i].key]

items ==
    mainMenuItems \o
    << [key |-> "", children |-> KeysOf(systemManagementItems)],
       [key |-> "", children |-> KeysOf(userManagementItems)] >>

(***************************************************************************)
(* Selection                                                               *)
(***************************************************************************)

\* menuItems.find((item) => pathname.startsWith(item.key))?.key
\* The result is "" when no item is found (undefined, falsy like '').
FindKey(its, path) ==
    LET hits == {i \in 1..Len(its) : startsWith(path, its[i].key)}
    IN  IF hits = {} THEN ""
        ELSE its[CHOOSE i \in hits : \A j \in hits : i <= j].key

\* x || dflt on strings
OrElse(x, dflt) == IF x = "" THEN dflt ELSE x

\* A computed selection: the selectedKeys handed to Menu, or threw = TRUE
\* when the computation raised an exception and nothing was rendered.
Selected(keys) == [threw |-> FALSE, keys |-> keys]
Threw == [threw |-> TRUE, keys |-> << >>]

\* App.selectedKey, first variant of layouts/index.tsx
LegacySelectedKey(path) ==
    Selected(<< OrElse(FindKey(LegacyMenuItems, path), "/knowledge") >>)

\* App.selectedKey, second variant of layouts/index.tsx
UserSelectedKey(path) ==
    Selected(<< OrElse(FindKey(UserMenuItems, path), "/knowledge") >>)

\* NextLayout.selectedKey of layouts/components/header/index.tsx
RoutesSelectedKey(path) ==
    Selected(<< OrElse(FindKey(RoutesMenuItems, path), Routes.Home) >>)

\* layouts/next.tsx imports no useLogout, which its selectedKey calls.
useLogoutImported == FALSE

\* NextLayout.selectedKey of layouts/next.tsx: the callback of useMemo first
\* evaluates useLogout(), a ReferenceError when the name is not bound.
NextSelectedKey(path) ==
    IF ~useLogoutImported THEN Threw
    ELSE Selected(<< OrElse(FindKey(NextMenuItems, path), "/knowledge") >>)

\* items.forEach(item => { if (pathname.startsWith(key)) keys.push(group, key) })
RECURSIVE PushGroup(_, _, _)
PushGroup(its, path, group) ==
    IF its = << >> THEN << >>
    ELSE (IF startsWith(path, Head(its).key) THEN << group, Head(its).key >>
          ELSE << >>)
         \o PushGroup(Tail(its), path, group)

\* Sidebar.getSelectedKeys
getSelectedKeys(path) ==
    LET main == SelectSeq(KeysOf(mainMenuItems),
                          LAMBDA key : startsWith(path, key) /\ key # "/")
        home == IF path = "/" \/ path = "/home" THEN << "/" >> ELSE << >>
    IN  Selected(main \o home
                 \o PushGroup(systemManagementItems, path, "system")
                 \o PushGroup(userManagementItems, path, "user"))

Layouts ==
    {"App.legacy", "App.user", "NextLayout.routes", "NextLayout.next",
     "App.sidebar", "NextLayout.sidebar"}

SidebarLayouts == {"App.sidebar", "NextLayout.sidebar"}

\* The menu tree a layout renders.
MenuOf(l) ==
    CASE l = "App.legacy" -> LegacyMenuItems
      [] l = "App.user" -> UserMenuItems
      [] l = "NextLayout.routes" -> RoutesMenuItems
      [] l = "NextLayout.next" -> NextMenuItems
      [] OTHER -> items

\* The selectedKeys a layout hands to its Menu for a path.
SelectionOf(l, path) ==
    CASE l = "App.legacy" -> LegacySelectedKey(path)
      [] l = "App.user" -> UserSelectedKey(path)
      [] l = "NextLayout.routes" -> RoutesSelectedKey(path)
      [] l = "NextLayout.next" -> NextSelectedKey(path)
      [] OTHER -> getSelectedKeys(path)

(***************************************************************************)
(* Bounds and inputs                                                       *)
(***************************************************************************)

MaxInFlight == 2
MaxConfirms == 1
MaxCalls == 2

\* The paths the location takes besides the keys the menus navigate to.
Paths ==
    {"/", "/home", "/unknown", "/knowledge", "/knowledge/dataset", "/files",
     "/user", "/user/profile", "/user/profile/edit", "/system/api",
     "/datasets/1", "/user-setting/team", "/user-setting/model"}

Emails == {"", "a@b.com", "abc"}
UserIds == {"u1", "u2"}
TenantIds == {"t1"}
CurrentUserId == "me"
StatusEmail == "a@b.com"

\* What a remote call answers: a result code, or a transport error.
Outcomes ==
    {[resolved |-> TRUE, code |-> 0], [resolved |-> TRUE, code |-> 102],
     [resolved |-> FALSE, code |-> -1]}

\* enum TenantRole (../constants): the members the pages use.
TenantRole == {"owner", "normal"}
TenantRole_Normal == "normal"

\* Rows of the tenant user list, as the server sends them.
UserRows ==
    {[user_id |-> "u1", nickname |-> "Ann", email |-> "ann@b.com", role |-> "normal"],
     [user_id |-> "u2", nickname |-> "", email |-> "bob@b.com", role |-> "owner"],
     [user_id |-> "u3", nickname |-> "Cy", email |-> "cy@b.com", role |-> "guest"]}

Nicknames == {"", "Ann"}
Null == [user_id |-> "null", nickname |-> "", email |-> "", role |-> ""]

(***************************************************************************)
(* Initial states                                                          *)
(***************************************************************************)

MenuIdle ==
    /\ loggedIn = TRUE
    /\ sidebarCollapsed = FALSE
    /\ collapsed = FALSE

TenantIdle ==
    /\ addingTenantModalVisible = FALSE
    /\ confirms = EmptyBag
    /\ inflight = EmptyBag
    /\ removeConfirmed = 0
    /\ removeCalls = 0
    /\ listTenantUser = "fresh"

EditIdle ==
    /\ editingUserModalVisible = FALSE
    /\ editingUser = Null
    /\ form = [nickname |-> "", role |-> TenantRole_Normal]
    /\ formErrors = {}

\* The team page of the user settings, under the layout with the Sidebar.
Init ==
    /\ layout = "NextLayout.sidebar"
    /\ pathname = "/user-setting/team"
    /\ MenuIdle /\ TenantIdle /\ EditIdle
    /\ membership = "Active"
    /\ last = [op |-> "init"]

\* The team page, for a user with an invitation to the tenant pending.
InviteInit ==
    /\ layout = "NextLayout.sidebar"
    /\ pathname = "/user-setting/team"
    /\ MenuIdle /\ TenantIdle /\ EditIdle
    /\ membership = "Pending"
    /\ last = [op |-> "init"]

\* Any layout, entered at any path.
MenuInit ==
    /\ layout \in Layouts
    /\ pathname \in Paths
    /\ MenuIdle /\ TenantIdle /\ EditIdle
    /\ membership = "Active"
    /\ last = [op |-> "init"]

(***************************************************************************)
(* Menu and layout actions                                                 *)
(***************************************************************************)

\* The location changes outside the menu (a link, the address bar).
LocationChange(path) ==
    /\ loggedIn
    /\ pathname' = path
    /\ last' = [op |-> "locationChange", key |-> path]
    /\ UNCHANGED <<layout, loggedIn, sidebarCollapsed, collapsed>>
    /\ UNCHANGED <<tenantVars, editVars>>

\* useNavigateWithFromState(): navigate(key)
navigate(key) ==
    /\ pathname' = key
    /\ last' = [op |-> "navigate", key |-> key]
    /\ UNCHANGED <<layout, loggedIn, sidebarCollapsed, collapsed>>

\* useLogout(): logout()
logout ==
    /\ loggedIn' = FALSE
    /\ last' = [op |-> "logout", key |-> ""]
    /\ UNCHANGED <<layout, pathname, sidebarCollapsed, collapsed>>

\* The keys a Menu lets the user select: the items without children.
RECURSIVE LeafKeys(_)
LeafKeys(its) ==
    IF its = << >> THEN {}
    ELSE (IF Head(its).children = << >> THEN {Head(its).key}
          ELSE {Head(its).children[i] : i \in 1..Len(Head(its).children)})
         \cup LeafKeys(Tail(its))

\* A layout that rendered: its selectedKey did not throw.
Rendered == loggedIn /\ ~SelectionOf(layout, pathname).threw

\* What the onSelect a layout gives its Menu does with a key: the second
\* variant of layouts/index.tsx calls logout() for '/user/logout', every
\* other onSelect (next.tsx too) is ({ key }) => navigate(key).
onSelect(l, key) ==
    IF l = "App.user" /\ key = "/user/logout"
    THEN [op |-> "logout", key |-> ""]
    ELSE [op |-> "navigate", key |-> key]

\* Menu onSelect of the layouts that pass every key to navigate.
OnSelect(key) ==
    /\ Rendered
    /\ layout \in {"App.legacy", "NextLayout.routes", "NextLayout.next"}
    /\ key \in LeafKeys(MenuOf(layout))
    /\ navigate(onSelect(layout, key).key)
    /\ UNCHANGED <<tenantVars, editVars>>

\* Menu onSelect of the second variant of layouts/index.tsx.
OnSelectUser(key) ==
    /\ Rendered
    /\ layout = "App.user"
    /\ key \in LeafKeys(UserMenuItems)
    /\ IF onSelect(layout, key).op = "logout" THEN logout ELSE navigate(key)
    /\ UNCHANGED <<tenantVars, editVars>>

\* Sidebar.handleMenuClick
handleMenuClick(key) ==
    /\ Rendered
    /\ layout \in SidebarLayouts
    /\ key \in LeafKeys(items)
    /\ IF startsWith(key, "/") THEN navigate(key)
       ELSE /\ last' = [op |-> "handleMenuClick", key |-> key]
            /\ UNCHANGED menuVars
    /\ UNCHANGED <<tenantVars, editVars>>

\* A layout that passes the Sidebar no onCollapseChange.
handleSidebarCollapse_notPassed(value) == UNCHANGED sidebarCollapsed

\* App / NextLayout.handleSidebarCollapse: setSidebarCollapsed(collapsed)
handleSidebarCollapse(value) == sidebarCollapsed' = value

\* const contentMarginLeft = sidebarCollapsed ? 80 : 240
contentMarginLeft == IF sidebarCollapsed THEN 80 ELSE 240

\* Sidebar.handleCollapse: setCollapsed(value); onCollapseChange?.(value),
\* the layout's handleSidebarCollapse.
handleCollapse(value) ==
    /\ Rendered
    /\ layout \in SidebarLayouts
    /\ collapsed' = value
    /\ handleSidebarCollapse(value)
    /\ last' = [op |-> "handleCollapse", key |-> ""]
    /\ UNCHANGED <<layout, pathname, loggedIn>>
    /\ UNCHANGED <<tenantVars, editVars>>

AllLeafKeys == UNION {LeafKeys(MenuOf(l)) : l \in Layouts}

MenuNext ==
    \/ \E path \in Paths : LocationChange(path)
    \/ \E key \in AllLeafKeys : OnSelect(key)
    \/ \E key \in AllLeafKeys : OnSelectUser(key)
    \/ \E key \in AllLeafKeys : handleMenuClick(key)
    \/ \E value \in BOOLEAN : handleCollapse(value)

MenuSpec == MenuInit /\ [][MenuNext]_vars

(***************************************************************************)
(* Tenant user actions (pages/user-setting hooks)                          *)
(***************************************************************************)

\* A remote call: the API, the handler that issued it, and its arguments
\* ("" for an argument the call does not pass).  orphan: the component
\* that issued it has been unmounted since.
Call(api, via, userId, tenantId, email, state) ==
    [api |-> api, via |-> via, userId |-> userId, tenantId |-> tenantId,
     email |-> email, state |-> state, orphan |-> FALSE]

\* A confirmation dialog opened by showDeleteConfirm.
Confirm(kind, userId, tenantId) ==
    [kind |-> kind, userId |-> userId, tenantId |-> tenantId]

\* What the remote API does to the membership of the current user when it
\* answers: agreeTenant makes it Active, deleteTenantUser of the current user
\* in a tenant removes it; a failure leaves it as it was.
RemoteEffect(call, outcome, m) ==
    IF ~(outcome.resolved /\ outcome.code = 0) THEN m
    ELSE IF call.api = "agreeTenant" THEN "Active"
    ELSE IF /\ call.api = "deleteTenantUser"
            /\ call.userId = CurrentUserId
            /\ call.tenantId # "" THEN "None"
    ELSE m

Issue(call) == inflight' = inflight (+) SetToBag({call})
Answer(call) == inflight' = inflight (-) SetToBag({call})
CanIssue == BagCardinality(inflight) < MaxInFlight

\* The view that uses the hooks is the team page of the user settings.
TeamPage == "/user-setting/team"
Mounted == pathname = TeamPage

\* hideModal() ignoring which instance of the hook it belongs to.
hideModal_anyInstance(visible, orphan) == FALSE

\* useSetModalState().hideModal(): setVisible(false) on the state of the
\* component instance that created it; when that instance is unmounted the
\* update is dropped and the state of a later instance is not touched.
hideModal(visible, orphan) == IF orphan THEN visible ELSE FALSE

\* useSetModalState().showModal of useAddUser
showAddingTenantModal ==
    /\ Mounted
    /\ addingTenantModalVisible' = TRUE
    /\ last' = [op |-> "showAddingTenantModal"]
    /\ UNCHANGED <<confirms, inflight, removeConfirmed, removeCalls, listTenantUser>>
    /\ UNCHANGED <<menuVars, editVars, membership>>

\* useSetModalState().hideModal of useAddUser
hideAddingTenantModal ==
    /\ addingTenantModalVisible
    /\ addingTenantModalVisible' = FALSE
    /\ last' = [op |-> "hideAddingTenantModal"]
    /\ UNCHANGED <<confirms, inflight, removeConfirmed, removeCalls, listTenantUser>>
    /\ UNCHANGED <<menuVars, editVars, membership>>

\* useAddUser.handleAddUserOk, up to its await: addTenantUser(email)
handleAddUserOk(email) ==
    /\ addingTenantModalVisible
    /\ CanIssue
    /\ Issue(Call("addTenantUser", "handleAddUserOk", "", "", email, ""))
    /\ last' = [op |-> "handleAddUserOk"]
    /\ UNCHANGED <<addingTenantModalVisible, confirms, removeConfirmed,
                   removeCalls, listTenantUser>>
    /\ UNCHANGED <<menuVars, editVars, membership>>

\* handleAddUserOk hiding the modal without looking at the code.
handleAddUserOk_resume_alwaysHide(call, outcome) ==
    /\ BagIn(call, inflight)
    /\ call.api = "addTenantUser"
    /\ Answer(call)
    /\ addingTenantModalVisible' = FALSE
    /\ last' = [op |-> "handleAddUserOk.resume", orphan |-> call.orphan,
                resolved |-> outcome.resolved, code |-> outcome.code]
    /\ UNCHANGED <<confirms, removeConfirmed, removeCalls, listTenantUser>>
    /\ UNCHANGED <<menuVars, editVars, membership>>

\* useAddUser.handleAddUserOk, after its await: if (code === 0) hide.
\* A rejected call ends the handler at the await.
handleAddUserOk_resume(call, outcome) ==
    /\ BagIn(call, inflight)
    /\ call.api = "addTenantUser"
    /\ Answer(call)
    /\ addingTenantModalVisible' =
          IF outcome.resolved /\ outcome.code = 0
          THEN hideModal(addingTenantModalVisible, call.orphan)
          ELSE addingTenantModalVisible
    /\ last' = [op |-> "handleAddUserOk.resume", orphan |-> call.orphan,
                resolved |-> outcome.resolved, code |-> outcome.code]
    /\ UNCHANGED <<confirms, removeConfirmed, removeCalls, listTenantUser>>
    /\ UNCHANGED <<menuVars, editVars, membership>>

\* handleDeleteTenantUser calling deleteTenantUser without a confirmation.
handleDeleteTenantUser_noConfirm(userId) ==
    /\ CanIssue
    /\ removeCalls < MaxCalls
    /\ Issue(Call("deleteTenantUser", "handleDeleteTenantUser", userId, "",
                  "", ""))
    /\ removeCalls' = removeCalls + 1
    /\ last' = [op |-> "handleDeleteTenantUser"]
    /\ UNCHANGED <<addingTenantModalVisible, confirms, removeConfirmed,
                   listTenantUser>>
    /\ UNCHANGED <<menuVars, editVars, membership>>

\* useHandleDeleteUser.handleDeleteTenantUser(userId)(): showDeleteConfirm
handleDeleteTenantUser(userId) ==
    /\ BagCardinality(confirms) < MaxConfirms
    /\ confirms' = confirms (+) SetToBag({Confirm("remove", userId, "")})
    /\ last' = [op |-> "handleDeleteTenantUser"]
    /\ UNCHANGED <<addingTenantModalVisible, inflight, removeConfirmed,
                   removeCalls, listTenantUser>>
    /\ UNCHANGED <<menuVars, editVars, membership>>

\* handleQuitTenantUser calling deleteTenantUser without a confirmation.
handleQuitTenantUser_noConfirm(userId, tenantId) ==
    /\ CanIssue
    /\ Issue(Call("deleteTenantUser", "handleQuitTenantUser", userId,
                  tenantId, "", ""))
    /\ last' = [op |-> "handleQuitTenantUser"]
    /\ UNCHANGED <<addingTenantModalVisible, confirms, removeConfirmed,
                   removeCalls, listTenantUser>>
    /\ UNCHANGED <<menuVars, editVars, membership>>

\* useHandleQuitUser.handleQuitTenantUser(userId, tenantId)(): showDeleteConfirm
handleQuitTenantUser(userId, tenantId) ==
    /\ BagCardinality(confirms) < MaxConfirms
    /\ confirms' = confirms (+) SetToBag({Confirm("quit", userId, tenantId)})
    /\ last' = [op |-> "handleQuitTenantUser"]
    /\ UNCHANGED <<addingTenantModalVisible, inflight, removeConfirmed,
                   removeCalls, listTenantUser>>
    /\ UNCHANGED <<menuVars, editVars, membership>>

\* onOk of the RemoveUser confirmation, up to its await:
\* deleteTenantUser({ userId })
handleDeleteTenantUser_onOk(dialog) ==
    /\ BagIn(dialog, confirms)
    /\ dialog.kind = "remove"
    /\ CanIssue
    /\ removeConfirmed < MaxCalls
    /\ confirms' = confirms (-) SetToBag({dialog})
    /\ Issue(Call("deleteTenantUser", "handleDeleteTenantUser", dialog.userId,
                  "", "", ""))
    /\ removeConfirmed' = removeConfirmed + 1
    /\ removeCalls' = removeCalls + 1
    /\ last' = [op |-> "handleDeleteTenantUser.onOk", userId |-> dialog.userId]
    /\ UNCHANGED <<addingTenantModalVisible, listTenantUser>>
    /\ UNCHANGED <<menuVars, editVars, membership>>

\* onOk of the QuitTenant confirmation: deleteTenantUser({ userId, tenantId })
handleQuitTenantUser_onOk(dialog) ==
    /\ BagIn(dialog, confirms)
    /\ dialog.kind = "quit"
    /\ CanIssue
    /\ confirms' = confirms (-) SetToBag({dialog})
    /\ Issue(Call("deleteTenantUser", "handleQuitTenantUser", dialog.userId,
                  dialog.tenantId, "", ""))
    /\ last' = [op |-> "handleQuitTenantUser.onOk"]
    /\ UNCHANGED <<addingTenantModalVisible, removeConfirmed, removeCalls,
                   listTenantUser>>
    /\ UNCHANGED <<menuVars, editVars, membership>>

\* The user cancels a confirmation: neither handler passes an onCancel.
showDeleteConfirm_cancel(dialog) ==
    /\ BagIn(dialog, confirms)
    /\ confirms' = confirms (-) SetToBag({dialog})
    /\ last' = [op |-> "showDeleteConfirm.cancel"]
    /\ UNCHANGED <<addingTenantModalVisible, inflight, removeConfirmed,
                   removeCalls, listTenantUser>>
    /\ UNCHANGED <<menuVars, editVars, membership>>

\* The hook refreshing the list and reporting success whatever the answer.
useDeleteTenantUser_alwaysRefresh(outcome, list) ==
    [list |-> "stale", error |-> FALSE]

\* useDeleteTenantUser: what the hook does when its call is answered.  On
\* code 0 it invalidates the tenant user list; on a nonzero code or a
\* transport error it surfaces an error and leaves the list as it is.
useDeleteTenantUser(outcome, list) ==
    IF outcome.resolved /\ outcome.code = 0
    THEN [list |-> "stale", error |-> FALSE]
    ELSE [list |-> list, error |-> TRUE]

\* deleteTenantUser answers.  The RemoveUser handler does nothing with the
\* code (an empty if), the other two do not await the call: what follows
\* the answer is what the hook does.
deleteTenantUser_done(call, outcome) ==
    /\ BagIn(call, inflight)
    /\ call.api = "deleteTenantUser"
    /\ Answer(call)
    /\ listTenantUser' = useDeleteTenantUser(outcome, listTenantUser).list
    /\ last' = [op |-> "deleteTenantUser.done", via |-> call.via,
                resolved |-> outcome.resolved, code |-> outcome.code,
                error |-> useDeleteTenantUser(outcome, listTenantUser).error]
    /\ UNCHANGED <<addingTenantModalVisible, confirms, removeConfirmed,
                   removeCalls>>
    /\ membership' = RemoteEffect(call, outcome, membership)
    /\ UNCHANGED <<menuVars, editVars>>

\* useHandleAgreeTenant.handleAgree(tenantId, isAgree)()
handleAgree(tenantId, isAgree) ==
    /\ CanIssue
    /\ IF isAgree
       THEN Issue(Call("agreeTenant", "handleAgree", "", tenantId, "", ""))
       ELSE Issue(Call("deleteTenantUser", "handleAgree", CurrentUserId,
                       tenantId, "", ""))
    /\ last' = [op |-> "handleAgree"]
    /\ UNCHANGED <<addingTenantModalVisible, confirms, removeConfirmed,
                   removeCalls, listTenantUser>>
    /\ UNCHANGED <<menuVars, editVars, membership>>

\* agreeTenant answers; handleAgree does not await it.
agreeTenant_done(call, outcome) ==
    /\ BagIn(call, inflight)
    /\ call.api = "agreeTenant"
    /\ Answer(call)
    /\ last' = [op |-> "agreeTenant.done",
                resolved |-> outcome.resolved, code |-> outcome.code]
    /\ UNCHANGED <<addingTenantModalVisible, confirms, removeConfirmed,
                   removeCalls, listTenantUser>>
    /\ membership' = RemoteEffect(call, outcome, membership)
    /\ UNCHANGED <<menuVars, editVars>>

\* useUpdateUserStatus: mutate({ email, isActive }) runs mutationFn,
\* updateUserStatus(email, isActive ? 'on' : 'off')
mutate(email, isActive) ==
    /\ CanIssue
    /\ Issue(Call("updateUserStatus", "useUpdateUserStatus", "", "", email,
                  IF isActive THEN "on" ELSE "off"))
    /\ last' = [op |-> "mutate"]
    /\ UNCHANGED <<addingTenantModalVisible, confirms, removeConfirmed,
                   removeCalls, listTenantUser>>
    /\ UNCHANGED <<menuVars, editVars, membership>>

\* queryClient.invalidateQueries({ queryKey: ['listTenantUser'] })
invalidateQueries == listTenantUser' = "stale"

\* useUpdateUserStatus: the promise of mutationFn settles.  onSuccess runs
\* when it resolves, whatever the result code; onError when it rejects.
mutation_settled(call, outcome) ==
    /\ BagIn(call, inflight)
    /\ call.api = "updateUserStatus"
    /\ Answer(call)
    /\ IF outcome.resolved
       THEN /\ invalidateQueries
            /\ last' = [op |-> "onSuccess", resolved |-> TRUE,
                        code |-> outcome.code]
       ELSE /\ UNCHANGED listTenantUser
            /\ last' = [op |-> "onError", resolved |-> FALSE,
                        code |-> outcome.code]
    /\ UNCHANGED <<addingTenantModalVisible, confirms, removeConfirmed,
                   removeCalls>>
    /\ UNCHANGED <<menuVars, editVars, membership>>

\* The cached query layer fetches an invalidated query again.
refetch ==
    /\ listTenantUser = "stale"
    /\ listTenantUser' = "fresh"
    /\ last' = [op |-> "refetch"]
    /\ UNCHANGED <<addingTenantModalVisible, confirms, inflight,
                   removeConfirmed, removeCalls>>
    /\ UNCHANGED <<menuVars, editVars, membership>>

Calls == DOMAIN inflight
Dialogs == DOMAIN confirms

Next ==
    \/ showAddingTenantModal
    \/ hideAddingTenantModal
    \/ \E email \in Emails : handleAddUserOk(email)
    \/ \E call \in Calls, outcome \in Outcomes :
          handleAddUserOk_resume(call, outcome)
    \/ \E userId \in UserIds : handleDeleteTenantUser(userId)
    \/ \E tenantId \in TenantIds : handleQuitTenantUser(CurrentUserId, tenantId)
    \/ \E dialog \in Dialogs : handleDeleteTenantUser_onOk(dialog)
    \/ \E dialog \in Dialogs : handleQuitTenantUser_onOk(dialog)
    \/ \E dialog \in Dialogs : showDeleteConfirm_cancel(dialog)
    \/ \E call \in Calls, outcome \in Outcomes :
          deleteTenantUser_done(call, outcome)
    \/ \E isActive \in BOOLEAN : mutate(StatusEmail, isActive)
    \/ \E call \in Calls, outcome \in Outcomes :
          mutation_settled(call, outcome)
    \/ refetch

Spec == Init /\ [][Next]_vars

\* The calls in flight once the component that issued them is unmounted.
Orphaned(bag) ==
    LET copies(call) == IF call \in DOMAIN bag THEN bag[call] ELSE 0
        marked == {[call EXCEPT !.orphan = TRUE] : call \in DOMAIN bag}
    IN  [call \in marked |->
            copies(call) + copies([call EXCEPT !.orphan = FALSE])]

\* The user leaves the team page: its components unmount, their state is
\* dropped, open dialogs go with them; calls in flight are not aborted.
navigateAway(path) ==
    /\ Mounted
    /\ path # TeamPage
    /\ pathname' = path
    /\ addingTenantModalVisible' = FALSE
    /\ confirms' = EmptyBag
    /\ inflight' = Orphaned(inflight)
    /\ last' = [op |-> "navigateAway"]
    /\ UNCHANGED <<layout, loggedIn, sidebarCollapsed, collapsed>>
    /\ UNCHANGED <<removeConfirmed, removeCalls, listTenantUser, membership>>
    /\ UNCHANGED editVars

\* The user comes back: the page mounts again, its hooks start afresh.
navigateBack ==
    /\ ~Mounted
    /\ pathname' = TeamPage
    /\ last' = [op |-> "navigateBack"]
    /\ UNCHANGED <<layout, loggedIn, sidebarCollapsed, collapsed>>
    /\ UNCHANGED <<tenantVars, editVars>>

AwayPaths == {"/datasets"}

\* The invite dialog across leaving and re-entering the team page.
NavNext ==
    \/ showAddingTenantModal
    \/ hideAddingTenantModal
    \/ \E email \in Emails : handleAddUserOk(email)
    \/ \E call \in Calls, outcome \in Outcomes :
          handleAddUserOk_resume(call, outcome)
    \/ \E path \in AwayPaths : navigateAway(path)
    \/ navigateBack

NavSpec == Init /\ [][NavNext]_vars

\* The invitation flow: accept or decline, and quitting the tenant.
InviteNext ==
    \/ \E tenantId \in TenantIds, isAgree \in BOOLEAN :
          handleAgree(tenantId, isAgree)
    \/ \E call \in Calls, outcome \in Outcomes :
          agreeTenant_done(call, outcome)
    \/ \E call \in Calls, outcome \in Outcomes :
          deleteTenantUser_done(call, outcome)
    \/ \E tenantId \in TenantIds : handleQuitTenantUser(CurrentUserId, tenantId)
    \/ \E dialog \in Dialogs : handleQuitTenantUser_onOk(dialog)
    \/ \E dialog \in Dialogs : showDeleteConfirm_cancel(dialog)

InviteSpec == InviteInit /\ [][InviteNext]_vars

(***************************************************************************)
(* Edit user (useEditUser and EditUserModal)                               *)
(***************************************************************************)

\* EditInit: the team page with the tenant actions idle.
EditInit == Init

\* formSchema: nickname z.string().min(1), role z.nativeEnum(TenantRole).
\* The fields that fail.
formSchema(data) ==
    (IF Len(data.nickname) >= 1 THEN {} ELSE {"nickname"})
    \cup (IF data.role \in TenantRole THEN {} ELSE {"role"})

\* useForm defaultValues: userData?.nickname || '', userData?.role || Normal
defaultValues(userData) ==
    [nickname |-> userData.nickname,
     role |-> IF userData.role = "" THEN TenantRole_Normal ELSE userData.role]

\* useEditUser.handleEditUser (exported as showEditingUserModal); the modal
\* it opens starts its form from the row.
showEditingUserModal(userData) ==
    /\ editingUser' = userData
    /\ editingUserModalVisible' = TRUE
    /\ form' = defaultValues(userData)
    /\ formErrors' = {}
    /\ last' = [op |-> "showEditingUserModal", user_id |-> userData.user_id]
    /\ UNCHANGED <<menuVars, tenantVars>>

\* useSetModalState().hideModal of useEditUser, from the modal's onOpenChange
hideEditingUserModal ==
    /\ editingUserModalVisible
    /\ editingUserModalVisible' = FALSE
    /\ last' = [op |-> "hideEditingUserModal"]
    /\ UNCHANGED <<editingUser, form, formErrors>>
    /\ UNCHANGED <<menuVars, tenantVars>>

\* The nickname Input changes.
setNickname(value) ==
    /\ editingUserModalVisible
    /\ form' = [form EXCEPT !.nickname = value]
    /\ last' = [op |-> "setNickname"]
    /\ UNCHANGED <<editingUserModalVisible, editingUser, formErrors>>
    /\ UNCHANGED <<menuVars, tenantVars>>

\* The role Select changes: its items are Normal and Owner.
setRole(value) ==
    /\ editingUserModalVisible
    /\ form' = [form EXCEPT !.role = value]
    /\ last' = [op |-> "setRole"]
    /\ UNCHANGED <<editingUserModalVisible, editingUser, formErrors>>
    /\ UNCHANGED <<menuVars, tenantVars>>

\* handleEditUserOk hiding the modal and keeping the edit buffer.
handleEditUserOk_keepBuffer(data) ==
    /\ editingUserModalVisible' = FALSE
    /\ editingUser' = editingUser
    /\ last' = [op |-> "handleEditUserOk", nickname |-> data.nickname,
                role |-> data.role]
    /\ UNCHANGED <<menuVars, tenantVars>>

\* useEditUser.handleEditUserOk(data): logs, hides the modal, clears the
\* edit buffer.  It issues no remote call.
handleEditUserOk(data) ==
    /\ editingUserModalVisible' = FALSE
    /\ editingUser' = Null
    /\ last' = [op |-> "handleEditUserOk", nickname |-> data.nickname,
                role |-> data.role]
    /\ UNCHANGED <<menuVars, tenantVars>>

\* handleSubmit without a resolver: handleOk runs whatever the values.
handleSubmit_noValidation ==
    /\ editingUserModalVisible
    /\ formErrors' = {}
    /\ handleEditUserOk(form)
    /\ UNCHANGED form

\* The modal's onOk, form.handleSubmit(handleOk): the resolver validates
\* the values; handleOk, which calls onOk, runs only when none fails.
handleSubmit ==
    /\ editingUserModalVisible
    /\ formErrors' = formSchema(form)
    /\ IF formSchema(form) = {}
       THEN handleEditUserOk(form)
       ELSE /\ last' = [op |-> "handleSubmit.invalid",
                        nickname |-> form.nickname, role |-> form.role]
            /\ UNCHANGED <<editingUserModalVisible, editingUser>>
            /\ UNCHANGED <<menuVars, tenantVars>>
    /\ UNCHANGED form

EditNext ==
    \/ \E userData \in UserRows : showEditingUserModal(userData)
    \/ hideEditingUserModal
    \/ \E value \in Nicknames : setNickname(value)
    \/ \E value \in TenantRole : setRole(value)
    \/ handleSubmit

EditSpec == EditInit /\ [][EditNext]_vars

(***************************************************************************)
(* Properties                                                              *)
(***************************************************************************)

\* Every key of a menu tree: the top-level keys and the children.
RECURSIVE AllKeys(_)
AllKeys(its) ==
    IF its = << >> THEN {}
    ELSE {Head(its).key}
         \cup {Head(its).children[i] : i \in 1..Len(Head(its).children)}
         \cup AllKeys(Tail(its))

\* The keys of a tree that are prefixes of a path (group placeholders with
\* an empty key aside).
MatchingKeys(its, path) ==
    {k \in AllKeys(its) : k # "" /\ startsWith(path, k)}

LongestKey(ks) == CHOOSE k \in ks : \A other \in ks : Len(other) <= Len(k)

\* The configured default: the key of the first top-level item.
DefaultKey(its) == its[1].key

CurrentSelection == SelectionOf(layout, pathname)

\* C1: when several keys of the menu tree are prefixes of the path, the
\* selected key is the longest of them, never a shorter ancestor.
C1_LongestPrefixSelected ==
    LET ks == MatchingKeys(MenuOf(layout), pathname)
    IN  Cardinality(ks) >= 2 =>
            CurrentSelection = Selected(<< LongestKey(ks) >>)

\* C2: a path that matches no menu key selects the default, the key of the
\* first top-level item, in every implementation; so the selection is never
\* empty and holds only keys of the tree.
C2_NoMatchSelectsDefault ==
    LET its == MenuOf(layout)
        sel == CurrentSelection
    IN  /\ MatchingKeys(its, pathname) = {} =>
              sel = Selected(<< DefaultKey(its) >>)
        /\ ~sel.threw
        /\ sel.keys # << >>
        /\ \A i \in 1..Len(sel.keys) : sel.keys[i] \in AllKeys(its)

\* C3: the root path selects a default key that is a key of the menu tree
\* (in the Sidebar also for /home).
C3_RootSelectsMenuKey ==
    LET its == MenuOf(layout)
        sel == CurrentSelection
    IN  (pathname = "/" \/ (layout \in SidebarLayouts /\ pathname = "/home")) =>
            /\ ~sel.threw
            /\ sel.keys # << >>
            /\ \A i \in 1..Len(sel.keys) : sel.keys[i] \in AllKeys(its)

\* An email that passes validation: not empty, with an @ in it.
ValidEmail(email) ==
    /\ Len(email) > 0
    /\ \E i \in 1..Len(email) : SubSeq(email, i, i) = "@"

\* C4: addTenantUser is never called with an empty or ill-formed email.
C4_NoCallWithInvalidEmail ==
    \A call \in DOMAIN inflight :
        call.api = "addTenantUser" => ValidEmail(call.email)

\* C5: when the invite dialog is open and handleAddUserOk completes, the
\* dialog is closed exactly when addTenantUser returned code 0.
C5_ClosedIffCodeZero ==
    [][(/\ addingTenantModalVisible
        /\ last'.op = "handleAddUserOk.resume")
       => (addingTenantModalVisible' = ~(last'.resolved /\ last'.code = 0))]_vars

C5_Witness ==
    /\ last.op = "handleAddUserOk.resume"
    /\ last.resolved /\ last.code = 0
    /\ ~addingTenantModalVisible

RemoveCall(userId) ==
    Call("deleteTenantUser", "handleDeleteTenantUser", userId, "", "", "")

\* C6: RemoveUser issues no deleteTenantUser call until the confirmation's
\* onOk fires; each confirmation issues exactly one call, for the dialog's
\* user; the number of calls equals the number of confirmations.
C6_RemoveConfirmationGated ==
    /\ [](removeCalls = removeConfirmed)
    /\ [][\A userId \in UserIds :
            LET before == CopiesIn(RemoveCall(userId), inflight)
                after == CopiesIn(RemoveCall(userId), inflight')
                dialog == Confirm("remove", userId, "")
            IN  /\ after > before =>
                    /\ after = before + 1
                    /\ last'.op = "handleDeleteTenantUser.onOk"
                    /\ CopiesIn(dialog, confirms') = CopiesIn(dialog, confirms) - 1
                    /\ removeConfirmed' = removeConfirmed + 1
                    /\ removeCalls' = removeCalls + 1
                /\ (/\ last'.op = "handleDeleteTenantUser.onOk"
                    /\ last'.userId = userId) => after = before + 1]_vars

C6_Witness ==
    /\ last.op = "handleDeleteTenantUser.onOk"
    /\ removeConfirmed = 1
    /\ CopiesIn(RemoveCall("u1"), inflight) = 1
    /\ BagCardinality(inflight) = 1

QuitCall(tenantId) ==
    Call("deleteTenantUser", "handleQuitTenantUser", CurrentUserId, tenantId,
         "", "")

\* C7: cancelling a confirmation (RemoveUser or QuitTenant) issues no call
\* and changes nothing but the dialog; QuitTenant's deleteTenantUser is
\* issued only by the confirmation's onOk.
C7_CancelIsNoOp ==
    /\ [][last'.op = "showDeleteConfirm.cancel" =>
            /\ inflight' = inflight
            /\ UNCHANGED <<addingTenantModalVisible, removeConfirmed,
                           removeCalls, listTenantUser>>
            /\ UNCHANGED <<menuVars, editVars>>]_vars
    /\ [][\A tenantId \in TenantIds :
            CopiesIn(QuitCall(tenantId), inflight')
                > CopiesIn(QuitCall(tenantId), inflight) =>
            /\ last'.op = "handleQuitTenantUser.onOk"
            /\ CopiesIn(Confirm("quit", CurrentUserId, tenantId), confirms) > 0
            /\ CopiesIn(Confirm("quit", CurrentUserId, tenantId), confirms')
                 = CopiesIn(Confirm("quit", CurrentUserId, tenantId), confirms) - 1]_vars

C7_Witness ==
    /\ last.op = "showDeleteConfirm.cancel"
    /\ confirms = EmptyBag
    /\ inflight = EmptyBag
    /\ removeCalls = 0

\* C8: the listTenantUser cache key is invalidated exactly when
\* updateUserStatus returned result code 0: not on a transport error, and
\* not on a nonzero code.
C8_InvalidatedIffCodeZero ==
    [][(/\ last'.op \in {"onSuccess", "onError"}
        /\ listTenantUser = "fresh")
       => ((listTenantUser' = "stale") <=> (last'.resolved /\ last'.code = 0))]_vars

\* C9: after handleEditUserOk the user-visible state records that the edit
\* was not applied: it is not the state a successful action leaves, the
\* dialog closed without an error or a notice.
C9_EditNotSilentSuccess ==
    last.op = "handleEditUserOk" =>
        ~(editingUserModalVisible = FALSE /\ formErrors = {})

ValidEdit(data) == data.nickname # "" /\ data.role \in TenantRole

\* C10: onOk (handleEditUserOk) is invoked only with a non-empty nickname
\* and a role of TenantRole; on a validation failure it is not invoked and
\* the modal stays open.
C10_EditValidationFailFast ==
    /\ [](last.op = "handleEditUserOk" =>
            last.nickname # "" /\ last.role \in TenantRole)
    /\ [][last'.op \in {"handleEditUserOk", "handleSubmit.invalid"} =>
            /\ last'.op = "handleEditUserOk" => ValidEdit(form)
            /\ ~ValidEdit(form) =>
                 /\ last'.op = "handleSubmit.invalid"
                 /\ editingUserModalVisible'
                 /\ editingUser' = editingUser
                 /\ formErrors' # {}]_vars

C10_Witness ==
    /\ last.op = "handleSubmit.invalid"
    /\ form.role \notin TenantRole
    /\ "role" \in formErrors
    /\ editingUserModalVisible

AgreeCall(tenantId) ==
    Call("agreeTenant", "handleAgree", "", tenantId, "", "")

DeclineCall(tenantId) ==
    Call("deleteTenantUser", "handleAgree", CurrentUserId, tenantId, "", "")

\* C11: every handleAgree(tenantId, accept) issues exactly one remote call,
\* agreeTenant(tenantId) or deleteTenantUser({tenantId, userId: current user});
\* it is issued only while the current user's invitation is pending; an
\* accepted invitation becomes Active, a declined one is removed, and a
\* remote failure leaves the membership as it was.
C11_InviteCallOnlyWhenPending ==
    /\ [][last'.op = "handleAgree" =>
            /\ \E tenantId \in TenantIds :
                 \/ inflight' = inflight (+) SetToBag({AgreeCall(tenantId)})
                 \/ inflight' = inflight (+) SetToBag({DeclineCall(tenantId)})
            /\ membership = "Pending"]_vars
    /\ [][last'.op \in {"agreeTenant.done", "deleteTenantUser.done"} =>
            IF last'.resolved /\ last'.code = 0
            THEN membership' \in {"Active", "None"}
            ELSE membership' = membership]_vars

\* The key of every node of a tree, in document order: each top-level item
\* followed by its children.
RECURSIVE NodeKeys(_)
NodeKeys(its) ==
    IF its = << >> THEN << >>
    ELSE << Head(its).key >> \o Head(its).children \o NodeKeys(Tail(its))

\* C12: in the menu tree a layout (or the Sidebar) builds, no two nodes have
\* the same key.
C12_MenuKeysUnique ==
    LET ks == NodeKeys(MenuOf(layout))
    IN  \A i, j \in 1..Len(ks) : i # j => ks[i] # ks[j]

\* C13: the selected keys computed for a path are keys of childless nodes
\* only; a node with children is never itself selected.
C13_OnlyLeavesSelected ==
    LET sel == CurrentSelection
    IN  \A i \in 1..Len(sel.keys) : sel.keys[i] \in LeafKeys(MenuOf(layout))

\* The addTenantUser calls issued and not yet answered.
AddCallsInFlight == {call \in DOMAIN inflight : call.api = "addTenantUser"}

\* C14: between the issue of an addTenantUser call and its answer no second
\* addTenantUser call is issued: at most one is in flight at any time.
C14_OneInviteInFlight ==
    /\ Cardinality(AddCallsInFlight) <= 1
    /\ \A call \in AddCallsInFlight : CopiesIn(call, inflight) = 1

\* C15: when the user left the team page while an addTenantUser call was
\* pending, the late answer changes no UI state (the visibility of the
\* dialog stays as it is) and issues no further call: nothing is rolled
\* back; leaving the page does not abort the calls in flight.
C15_LateAnswerDiscarded ==
    /\ [][(last'.op = "handleAddUserOk.resume" /\ last'.orphan) =>
            /\ addingTenantModalVisible' = addingTenantModalVisible
            /\ BagCardinality(inflight') = BagCardinality(inflight) - 1
            /\ UNCHANGED <<confirms, listTenantUser, membership>>
            /\ UNCHANGED <<menuVars, editVars>>]_vars
    /\ [][last'.op = "navigateAway" =>
            BagCardinality(inflight') = BagCardinality(inflight)]_vars

C15_Witness ==
    /\ last.op = "handleAddUserOk.resume"
    /\ last.orphan
    /\ last.resolved /\ last.code = 0
    /\ Mounted
    /\ addingTenantModalVisible

\* C16: when the deleteTenantUser call of a confirmed RemoveUser is
\* answered, the tenant user list is refreshed (its query invalidated) if the
\* code is 0; on a nonzero code or a transport error an error is surfaced and
\* the list is unchanged.
C16_RemoveUserPostEffects ==
    [][(/\ last'.op = "deleteTenantUser.done"
        /\ last'.via = "handleDeleteTenantUser") =>
          IF last'.resolved /\ last'.code = 0
          THEN listTenantUser' = "stale" /\ ~last'.error
          ELSE listTenantUser' = listTenantUser /\ last'.error]_vars

C16_Witness ==
    /\ last.op = "deleteTenantUser.done"
    /\ last.via = "handleDeleteTenantUser"
    /\ last.resolved /\ last.code = 0
    /\ removeConfirmed = 1
    /\ listTenantUser = "stale"

\* C18: showEditingUserModal(userData) sets the edit buffer to userData and
\* opens the dialog; handleEditUserOk issues no remote call, closes the
\* dialog and clears the buffer; so after a step of either handler the
\* dialog is open exactly when the buffer is not null.
C18_EditDialogState ==
    /\ [][last'.op = "showEditingUserModal" =>
            /\ editingUserModalVisible'
            /\ editingUser' \in UserRows
            /\ editingUser'.user_id = last'.user_id]_vars
    /\ [][last'.op = "handleEditUserOk" =>
            /\ ~editingUserModalVisible'
            /\ editingUser' = Null
            /\ inflight' = inflight]_vars
    /\ [](last.op \in {"showEditingUserModal", "handleEditUserOk"} =>
            (editingUserModalVisible <=> editingUser # Null))

C18_Witness ==
    /\ last.op = "handleEditUserOk"
    /\ ~editingUserModalVisible
    /\ editingUser = Null
    /\ form.nickname = "Ann"

\* C19: in the layouts that embed the Sidebar, the layout's sidebarCollapsed
\* always equals the Sidebar's collapsed, and the left margin of the content
\* is 80 when the Sidebar is collapsed and 240 when it is not; both flags
\* start FALSE.
C19_CollapseInSync ==
    layout \in SidebarLayouts =>
        /\ sidebarCollapsed = collapsed
        /\ contentMarginLeft = (IF collapsed THEN 80 ELSE 240)
        /\ last.op = "init" => ~collapsed /\ contentMarginLeft = 240

C19_Witness ==
    /\ layout \in SidebarLayouts
    /\ last.op = "handleCollapse"
    /\ collapsed
    /\ sidebarCollapsed
    /\ contentMarginLeft = 80

\* C20: in every layout whose menu holds the entry '/user/logout', selecting
\* that entry calls logout and navigates nowhere, and selecting any other
\* key navigates to that key and does not call logout.
C20_LogoutEntryLogsOut ==
    "/user/logout" \in LeafKeys(MenuOf(layout)) =>
        \A key \in LeafKeys(MenuOf(layout)) :
            onSelect(layout, key) =
                IF key = "/user/logout" THEN [op |-> "logout", key |-> ""]
                ELSE [op |-> "navigate", key |-> key]

====
